---- MODULE Spec2Model ----
(***************************************************************************)
(* Model of the top-level statement collector of relay-codegen             *)
(* (top_level_statements.rs), of the waterfall validation of client edges  *)
(* and of the module-dependency collection for 3D fields.                  *)
(*                                                                         *)
(* A Rust String is modelled as the sequence of its bytes, so that the     *)
(* derived lexicographic order and the text written by Display are         *)
(* computed and not assumed.                                               *)
(***************************************************************************)
EXTENDS Integers, Sequences, FiniteSets, TLC

VARIABLES
    map,          \* TopLevelStatements.0 : IndexMap, entries in index order
    calls,        \* history of the insert calls made so far
    path,         \* selection-tree nodes currently open in the traversal
    stack,        \* WaterfallValidator: open to-server ancestors
    errors,       \* WaterfallValidator: recorded UnexpectedWaterfall diagnostics
    visited,      \* every node entered so far, with its ancestry at entry
    spreads,      \* DependencyMetadataTransform: fragment spreads currently open
    deps,         \* DependencyMetadataTransform: module dependencies of the 3D field
    seen          \* every module occurrence met so far in the subtree

vars == <<map, calls, path, stack, errors, visited, spreads, deps, seen>>

collectorVars == <<map, calls>>
waterfallVars == <<path, stack, errors, visited>>
depsVars == <<spreads, deps, seen>>

----------------------------------------------------------------------------
(* Bounds *)

MaxCalls == 3
MaxNodes == 4
MaxDepth == 4
MaxOccurrences == 4
MaxSpreads == 2

----------------------------------------------------------------------------
(* Strings as byte sequences *)

str_Foo == <<70, 111, 111>>                                            \* "Foo"
str_Bar == <<66, 97, 114>>                                             \* "Bar"
str_Baz == <<66, 97, 122>>                                             \* "Baz"
str_B == <<66>>                                                        \* "B"
path_Foo == <<70, 111, 111, 46, 103, 114, 97, 112, 104, 113, 108>>     \* "Foo.graphql"
path_Bar == <<66, 97, 114, 46, 103, 114, 97, 112, 104, 113, 108>>      \* "Bar.graphql"
path_Baz == <<66, 97, 122, 46, 103, 114, 97, 112, 104, 113, 108>>      \* "Baz.graphql"
text_bar == <<99, 111, 110, 115, 116, 32, 98, 97, 114, 32, 61, 32, 49, 59>>       \* "const bar = 1;"
text_Qux == <<99, 111, 110, 115, 116, 32, 81, 117, 120, 32, 61, 32, 50, 59, 10>>  \* "const Qux = 2;\n"

fmt_import == <<105, 109, 112, 111, 114, 116, 32>>                     \* "import "
fmt_from == <<32, 102, 114, 111, 109, 32, 39>>                         \* " from '"
fmt_end == <<39, 59, 10>>                                              \* "';\n"
fmt_import_brace == <<105, 109, 112, 111, 114, 116, 32, 123>>          \* "import {"
fmt_as == <<32, 97, 115, 32>>                                          \* " as "
fmt_brace_from == <<125, 32, 102, 114, 111, 109, 32, 39>>              \* "} from '"
LineBreak == <<10>>                                                    \* "\n"

----------------------------------------------------------------------------
(* Values of TopLevelStatement and ModuleImportName *)

None == [some |-> FALSE, value |-> <<>>]
Some(s) == [some |-> TRUE, value |-> s]

Default(name) == [variant |-> "Default", name |-> name, import_as |-> None]
Named(name, import_as) == [variant |-> "Named", name |-> name, import_as |-> import_as]

ImportStatement(module_import_name, p) ==
    [variant |-> "ImportStatement", module_import_name |-> module_import_name,
     path |-> p, text |-> <<>>]
VariableDefinition(text) ==
    [variant |-> "VariableDefinition", module_import_name |-> Default(<<>>),
     path |-> <<>>, text |-> text]

Symbols == {"Foo", "bar", "Baz"}

Statements ==
    { ImportStatement(Default(str_Foo), path_Foo),
      ImportStatement(Default(str_Foo), path_Bar),
      ImportStatement(Named(str_Baz, None), path_Baz),
      ImportStatement(Named(str_Baz, Some(str_B)), path_Baz),
      ImportStatement(Named(str_Bar, Some(str_B)), path_Bar),
      VariableDefinition(text_bar),
      VariableDefinition(text_Qux) }

----------------------------------------------------------------------------
(* #[derive(PartialOrd, Ord)] *)

CmpInt(a, b) == IF a < b THEN -1 ELSE IF a > b THEN 1 ELSE 0

\* Ord for String: lexicographic on bytes, a proper prefix is smaller
CmpString(a, b) ==
    LET n == IF Len(a) < Len(b) THEN Len(a) ELSE Len(b)
        diff == {i \in 1..n : a[i] # b[i]}
    IN  IF diff = {} THEN CmpInt(Len(a), Len(b))
        ELSE LET i == CHOOSE j \in diff : \A k \in diff : j <= k
             IN  CmpInt(a[i], b[i])

\* Ord for Option<String>: None < Some(_), Some by content
CmpOption(a, b) ==
    IF a.some # b.some THEN (IF b.some THEN -1 ELSE 1)
    ELSE IF a.some THEN CmpString(a.value, b.value) ELSE 0

ModuleImportNameIndex(m) == IF m.variant = "Default" THEN 0 ELSE 1

CmpModuleImportName(a, b) ==
    IF a.variant # b.variant
    THEN CmpInt(ModuleImportNameIndex(a), ModuleImportNameIndex(b))
    ELSE IF a.variant = "Default" THEN CmpString(a.name, b.name)
    ELSE LET byName == CmpString(a.name, b.name)
         IN  IF byName # 0 THEN byName ELSE CmpOption(a.import_as, b.import_as)

\* variant order reversed
TopLevelStatementIndex_Swapped(s) == IF s.variant = "ImportStatement" THEN 1 ELSE 0

TopLevelStatementIndex(s) == IF s.variant = "ImportStatement" THEN 0 ELSE 1

\* the path left out of the comparison
CmpTopLevelStatement_NoPath(a, b) ==
    IF a.variant # b.variant
    THEN CmpInt(TopLevelStatementIndex(a), TopLevelStatementIndex(b))
    ELSE IF a.variant = "ImportStatement"
    THEN CmpModuleImportName(a.module_import_name, b.module_import_name)
    ELSE CmpString(a.text, b.text)

CmpTopLevelStatement(a, b) ==
    IF a.variant # b.variant
    THEN CmpInt(TopLevelStatementIndex(a), TopLevelStatementIndex(b))
    ELSE IF a.variant = "ImportStatement"
    THEN LET byName == CmpModuleImportName(a.module_import_name, b.module_import_name)
         IN  IF byName # 0 THEN byName ELSE CmpString(a.path, b.path)
    ELSE CmpString(a.text, b.text)

----------------------------------------------------------------------------
(* impl Display for TopLevelStatement *)

FmtTopLevelStatement(s) ==
    IF s.variant = "ImportStatement"
    THEN IF s.module_import_name.variant = "Default"
         THEN fmt_import \o s.module_import_name.name \o fmt_from \o s.path \o fmt_end
         ELSE IF s.module_import_name.import_as.some
         THEN fmt_import_brace \o s.module_import_name.name \o fmt_as
                  \o s.module_import_name.import_as.value \o fmt_brace_from \o s.path \o fmt_end
         ELSE fmt_import_brace \o s.module_import_name.name \o fmt_brace_from \o s.path \o fmt_end
    ELSE s.text

----------------------------------------------------------------------------
(* impl TopLevelStatements *)

Keys(m) == {m[i].symbol : i \in 1..Len(m)}

IndexOf(m, symbol) == CHOOSE i \in 1..Len(m) : m[i].symbol = symbol

\* insert-if-absent: an existing key keeps its old value
IndexMapInsert_KeepOld(m, symbol, statement) ==
    IF symbol \in Keys(m) THEN m
    ELSE Append(m, [symbol |-> symbol, statement |-> statement])

\* a plain list: every insert appends
IndexMapInsert_AlwaysAppend(m, symbol, statement) ==
    Append(m, [symbol |-> symbol, statement |-> statement])

\* IndexMap::insert: an existing key keeps its index and gets the new value,
\* a new key is appended
IndexMapInsert(m, symbol, statement) ==
    IF symbol \in Keys(m)
    THEN [m EXCEPT ![IndexOf(m, symbol)].statement = statement]
    ELSE Append(m, [symbol |-> symbol, statement |-> statement])

\* only the most recent entry is looked at
contains_LastOnly(m, symbol) == Len(m) > 0 /\ m[Len(m)].symbol = symbol

contains(m, symbol) == symbol \in Keys(m)

is_empty(m) == Len(m) = 0

\* self.0.values().collect::<Vec<_>>()
Values(m) == [i \in 1..Len(m) |-> m[i].statement]

\* slice::sort is stable: x goes after every element that is not greater
SortedInsert(sorted, x) ==
    LET greater == {i \in 1..Len(sorted) : CmpTopLevelStatement(sorted[i], x) > 0}
        k == IF greater = {} THEN Len(sorted) + 1
             ELSE CHOOSE j \in greater : \A l \in greater : j <= l
    IN  SubSeq(sorted, 1, k - 1) \o <<x>> \o SubSeq(sorted, k, Len(sorted))

RECURSIVE Sort(_)
Sort(v) ==
    IF Len(v) = 0 THEN <<>>
    ELSE SortedInsert(Sort(SubSeq(v, 1, Len(v) - 1)), v[Len(v)])

\* the sort left out
SortedStatements_Unsorted(m) == Values(m)

\* sorted and deduplicated, as an ordered set of values would be
RECURSIVE Dedup(_)
Dedup(v) ==
    IF Len(v) <= 1 THEN v
    ELSE IF v[Len(v)] = v[Len(v) - 1] THEN Dedup(SubSeq(v, 1, Len(v) - 1))
    ELSE Append(Dedup(SubSeq(v, 1, Len(v) - 1)), v[Len(v)])

SortedStatements_Dedup(m) == Dedup(Sort(Values(m)))

\* the statements in the order fmt writes them
SortedStatements(m) == Sort(Values(m))

RECURSIVE Concat(_)
Concat(texts) ==
    IF Len(texts) = 0 THEN <<>>
    ELSE FmtTopLevelStatement(Head(texts)) \o Concat(Tail(texts))

\* impl Display for TopLevelStatements
Render(m) == Concat(SortedStatements(m))

----------------------------------------------------------------------------
(* WaterfallValidator: one top-down traversal with a stack of the open      *)
(* to-server ancestors                                                      *)

Node(id, kind, ack) == [id |-> id, kind |-> kind, ack |-> ack]

\* the acknowledgment is not looked at
IsUnexpectedWaterfall_IgnoresAck(depth, ack) == depth >= 1

\* depth = stack size; an unacknowledged to-server edge at depth >= 1 is an
\* UnexpectedWaterfall
IsUnexpectedWaterfall(depth, ack) == depth >= 1 /\ ~ack

UnexpectedWaterfall(id, ancestor) == [node |-> id, ancestor |-> ancestor]

\* entering any node: the traversal descends and remembers what was above
Descend(kind, ack) ==
    /\ Len(visited) < MaxNodes
    /\ Len(path) < MaxDepth
    /\ path' = Append(path, Node(Len(visited) + 1, kind, ack))
    /\ visited' = Append(visited, [kind |-> kind, ack |-> ack, above |-> path])

EnterToServer(ack) ==
    /\ Descend("to_server", ack)
    /\ errors' = IF IsUnexpectedWaterfall(Len(stack), ack)
                 THEN Append(errors, UnexpectedWaterfall(Len(visited) + 1, stack[Len(stack)]))
                 ELSE errors
    /\ stack' = Append(stack, Len(visited) + 1)
    /\ UNCHANGED <<collectorVars, depsVars>>

\* to-client-object edges never push
EnterToClientObject ==
    /\ Descend("to_client_object", FALSE)
    /\ UNCHANGED <<stack, errors, collectorVars, depsVars>>

EnterField ==
    /\ Descend("field", FALSE)
    /\ UNCHANGED <<stack, errors, collectorVars, depsVars>>

\* on leaving a to-server node: pop
Leave ==
    /\ Len(path) > 0
    /\ path' = SubSeq(path, 1, Len(path) - 1)
    /\ stack' = IF path[Len(path)].kind = "to_server"
                THEN SubSeq(stack, 1, Len(stack) - 1)
                ELSE stack
    /\ UNCHANGED <<errors, visited, collectorVars, depsVars>>

----------------------------------------------------------------------------
(* DependencyMetadataTransform: module dependencies of one 3D field          *)

Modules == {"FooModule", "BarModule", "BazModule"}

\* direct when declared on the field itself, transitive when met through a spread
Classification(depth) == IF depth = 0 THEN "direct" ELSE "transitive"

\* the latest classification wins
MergeDependency_LastWins(d, module, classification) ==
    IF \E i \in 1..Len(d) : d[i].module = module
    THEN [i \in 1..Len(d) |->
            IF d[i].module = module
            THEN [module |-> module, classification |-> classification]
            ELSE d[i]]
    ELSE Append(d, [module |-> module, classification |-> classification])

\* set semantics: a module is kept once, direct dominates transitive
MergeDependency(d, module, classification) ==
    IF \E i \in 1..Len(d) : d[i].module = module
    THEN [i \in 1..Len(d) |->
            IF d[i].module = module /\ classification = "direct"
            THEN [module |-> module, classification |-> "direct"]
            ELSE d[i]]
    ELSE Append(d, [module |-> module, classification |-> classification])

EnterSpread ==
    /\ spreads < MaxSpreads
    /\ spreads' = spreads + 1
    /\ UNCHANGED <<deps, seen, collectorVars, waterfallVars>>

LeaveSpread ==
    /\ spreads > 0
    /\ spreads' = spreads - 1
    /\ UNCHANGED <<deps, seen, collectorVars, waterfallVars>>

VisitModule(module) ==
    /\ Len(seen) < MaxOccurrences
    /\ deps' = MergeDependency(deps, module, Classification(spreads))
    /\ seen' = Append(seen, [module |-> module, classification |-> Classification(spreads)])
    /\ UNCHANGED <<spreads, collectorVars, waterfallVars>>

----------------------------------------------------------------------------
(* The state machines *)

Init ==
    /\ map = <<>>
    /\ calls = <<>>
    /\ path = <<>>
    /\ stack = <<>>
    /\ errors = <<>>
    /\ visited = <<>>
    /\ spreads = 0
    /\ deps = <<>>
    /\ seen = <<>>

Insert(symbol, statement) ==
    /\ Len(calls) < MaxCalls
    /\ map' = IndexMapInsert(map, symbol, statement)
    /\ calls' = Append(calls, [symbol |-> symbol, statement |-> statement])
    /\ UNCHANGED <<waterfallVars, depsVars>>

Next == \E symbol \in Symbols, statement \in Statements : Insert(symbol, statement)

Spec == Init /\ [][Next]_vars

WaterfallNext ==
    \/ \E ack \in BOOLEAN : EnterToServer(ack)
    \/ EnterToClientObject
    \/ EnterField
    \/ Leave

WaterfallSpec == Init /\ [][WaterfallNext]_vars

DepsNext ==
    \/ EnterSpread
    \/ LeaveSpread
    \/ \E module \in Modules : VisitModule(module)

DepsSpec == Init /\ [][DepsNext]_vars

----------------------------------------------------------------------------
(* Helpers for stating the properties of the collector *)

RECURSIVE InsertAll(_)
InsertAll(cs) ==
    IF Len(cs) = 0 THEN <<>>
    ELSE IndexMapInsert(InsertAll(SubSeq(cs, 1, Len(cs) - 1)),
                        cs[Len(cs)].symbol, cs[Len(cs)].statement)

Perms(n) == {f \in [1..n -> 1..n] : \A i, j \in 1..n : i # j => f[i] # f[j]}

Permuted(cs, f) == [i \in 1..Len(cs) |-> cs[f[i]]]

CalledSymbols == {calls[i].symbol : i \in 1..Len(calls)}

LastCallFor(symbol) ==
    LET at == {i \in 1..Len(calls) : calls[i].symbol = symbol}
    IN  calls[CHOOSE i \in at : \A j \in at : j <= i]

DistinctPairs(cs) == \A i, j \in 1..Len(cs) : i # j => cs[i] # cs[j]

DistinctSymbols(cs) == \A i, j \in 1..Len(cs) : i # j => cs[i].symbol # cs[j].symbol

Stored(m, symbol, statement) ==
    \E i \in 1..Len(m) : m[i].symbol = symbol /\ m[i].statement = statement

Count(v, x) == Cardinality({i \in 1..Len(v) : v[i] = x})

LineBreaks(text) == Cardinality({i \in 1..Len(text) : <<text[i]>> = LineBreak})

EndsWithLineBreak(text) == Len(text) > 0 /\ <<text[Len(text)]>> = LineBreak

IsImport(s) == s.variant = "ImportStatement"

----------------------------------------------------------------------------
(* C1 *)

\* C1 (as stated): for any set of (symbol, statement) pairs, every order of
\* inserting them into an empty collector renders the same text.
C1_AnyPairSetOrderIndependent ==
    DistinctPairs(calls) =>
        \A f \in Perms(Len(calls)) : Render(InsertAll(Permuted(calls, f))) = Render(map)

\* C1 (amended): for any set of (symbol, statement) pairs with pairwise
\* distinct symbols, every order of inserting them into an empty collector
\* renders the same text.
C1_OrderIndependent ==
    DistinctSymbols(calls) =>
        LET text == Render(map)
        IN  \A f \in Perms(Len(calls)) : Render(InsertAll(Permuted(calls, f))) = text

C1_Witness ==
    /\ Len(calls) = 3
    /\ DistinctSymbols(calls)
    /\ Values(map) # SortedStatements(map)
    /\ \E f \in Perms(3) : InsertAll(Permuted(calls, f)) # map

----------------------------------------------------------------------------
(* C2 *)

\* the order as the documentation words it
DocAliasLeq(a, b) == ~a.some \/ (b.some /\ CmpString(a.value, b.value) <= 0)

DocImportNameLeq(a, b) ==
    IF a.variant = "Default" /\ b.variant = "Named" THEN TRUE
    ELSE IF a.variant = "Named" /\ b.variant = "Default" THEN FALSE
    ELSE IF a.variant = "Default" THEN CmpString(a.name, b.name) <= 0
    ELSE \/ CmpString(a.name, b.name) < 0
         \/ CmpString(a.name, b.name) = 0 /\ DocAliasLeq(a.import_as, b.import_as)

DocLeq(a, b) ==
    IF IsImport(a) /\ ~IsImport(b) THEN TRUE
    ELSE IF ~IsImport(a) /\ IsImport(b) THEN FALSE
    ELSE IF IsImport(a) THEN DocImportNameLeq(a.module_import_name, b.module_import_name)
    ELSE CmpString(a.text, b.text) <= 0

ScenarioFoo == ImportStatement(Default(str_Foo), path_Foo)
ScenarioBar == VariableDefinition(text_bar)
ScenarioBaz == ImportStatement(Named(str_Baz, None), path_Baz)

ScenarioCalls ==
    << [symbol |-> "Foo", statement |-> ScenarioFoo],
       [symbol |-> "bar", statement |-> ScenarioBar],
       [symbol |-> "Baz", statement |-> ScenarioBaz] >>

\* "import Foo from 'Foo.graphql';\nimport {Baz} from 'Baz.graphql';\nconst bar = 1;"
ScenarioText ==
    <<105, 109, 112, 111, 114, 116, 32, 70, 111, 111, 32, 102, 114, 111, 109, 32, 39,
      70, 111, 111, 46, 103, 114, 97, 112, 104, 113, 108, 39, 59, 10,
      105, 109, 112, 111, 114, 116, 32, 123, 66, 97, 122, 125, 32, 102, 114, 111, 109, 32, 39,
      66, 97, 122, 46, 103, 114, 97, 112, 104, 113, 108, 39, 59, 10,
      99, 111, 110, 115, 116, 32, 98, 97, 114, 32, 61, 32, 49, 59>>

\* C2: render emits the stored statements in non-decreasing documented order
\* (imports before variables, default before named imports, defaults by name,
\* named by imported name then alias with no alias first, variables by text);
\* the Foo / bar / Baz scenario renders Foo import, Baz import, variable text.
C2_RenderOrder ==
    /\ LET emitted == SortedStatements(map)
       IN  \A i, j \in 1..Len(map) : i < j => DocLeq(emitted[i], emitted[j])
    /\ (calls = ScenarioCalls =>
          /\ SortedStatements(map) = <<ScenarioFoo, ScenarioBaz, ScenarioBar>>
          /\ Render(map) = ScenarioText)

C2_Witness ==
    /\ calls = ScenarioCalls
    /\ Values(map) = <<ScenarioFoo, ScenarioBar, ScenarioBaz>>

----------------------------------------------------------------------------
(* C3 *)

\* C3: the collector holds exactly one entry per distinct inserted symbol, it
\* carries the statement of the most recent insert for that symbol, and render
\* emits as many statements as there are distinct symbols.
C3_OneStatementPerSymbol ==
    /\ Keys(map) = CalledSymbols
    /\ \A symbol \in CalledSymbols :
          /\ Cardinality({i \in 1..Len(map) : map[i].symbol = symbol}) = 1
          /\ map[IndexOf(map, symbol)].statement = LastCallFor(symbol).statement
    /\ Len(SortedStatements(map)) = Cardinality(CalledSymbols)

C3_Witness ==
    /\ Len(calls) = 3
    /\ Len(map) = 2
    /\ calls[1].symbol = calls[3].symbol
    /\ calls[1].statement # calls[3].statement
    /\ map[1].statement = calls[3].statement

----------------------------------------------------------------------------
(* C4 *)

\* C4: inserting a pair identical to one already stored changes neither the
\* rendered text nor any contains / is_empty answer.
C4_InsertIdempotent ==
    [][ \A symbol \in Symbols, statement \in Statements :
          ( /\ Stored(map, symbol, statement)
            /\ calls' = Append(calls, [symbol |-> symbol, statement |-> statement]) )
          => /\ Render(map') = Render(map)
             /\ \A s \in Symbols : contains(map', s) = contains(map, s)
             /\ is_empty(map') = is_empty(map) ]_vars

C4_Witness ==
    /\ Len(calls) = 3
    /\ calls[3] = calls[1]
    /\ calls[2].symbol # calls[1].symbol
    /\ Stored(InsertAll(SubSeq(calls, 1, 2)), calls[3].symbol, calls[3].statement)
    /\ Len(map) = 2

----------------------------------------------------------------------------
(* C5 *)

\* C5: every stored statement is rendered on a line of its own: the text of
\* every kind of statement ends with a line break, and a collector holding n
\* statements renders n lines.
C5_OneLinePerStatement ==
    /\ \A i \in 1..Len(map) : EndsWithLineBreak(FmtTopLevelStatement(map[i].statement))
    /\ LineBreaks(Render(map)) = Len(map)

----------------------------------------------------------------------------
(* C8 *)

\* C8: contains(s) holds exactly for the symbols inserted so far, is_empty
\* holds exactly while nothing was inserted, and neither ever goes back.
C8_ContainsAndIsEmpty ==
    /\ [](/\ \A s \in Symbols : contains(map, s) <=> s \in CalledSymbols
          /\ is_empty(map) <=> calls = <<>>)
    /\ [][ /\ \A s \in Symbols : contains(map, s) => contains(map', s)
           /\ ~is_empty(map) => ~is_empty(map') ]_vars

C8_Witness ==
    /\ Len(calls) = 3
    /\ contains(map, "Foo") /\ contains(map, "Baz") /\ ~contains(map, "bar")
    /\ calls[1].symbol = "Foo" /\ calls[2].symbol = "Baz" /\ calls[3].symbol = "Foo"
    /\ ~is_empty(map)

----------------------------------------------------------------------------
(* C9 *)

Reverse(m) == [i \in 1..Len(m) |-> m[Len(m) + 1 - i]]

\* C9: on the stored statements the derived order is a strict total order with
\* the import path as last tie-breaker; statements compare equal only when
\* identical, so ties cannot make the output depend on the stored order.
C9_StrictTotalOrder ==
    /\ \A i, j \in 1..Len(map) :
          LET a == map[i].statement
              b == map[j].statement
              ab == CmpTopLevelStatement(a, b)
          IN  /\ ab = 0 <=> a = b
              /\ i <= j => ab = 0 - CmpTopLevelStatement(b, a)
              /\ ab = 0 => FmtTopLevelStatement(a) = FmtTopLevelStatement(b)
              /\ ( /\ IsImport(a) /\ IsImport(b)
                   /\ a.module_import_name = b.module_import_name )
                 => ab = CmpString(a.path, b.path)
              /\ \A k \in 1..Len(map) :
                    ( /\ ab < 0
                      /\ CmpTopLevelStatement(b, map[k].statement) < 0 )
                    => CmpTopLevelStatement(a, map[k].statement) < 0
    /\ SortedStatements(Reverse(map)) = SortedStatements(map)

C9_Witness ==
    /\ Len(map) = 3
    /\ \E i, j \in 1..3 :
          /\ map[i].statement = ImportStatement(Default(str_Foo), path_Foo)
          /\ map[j].statement = ImportStatement(Default(str_Foo), path_Bar)
    /\ SortedStatements(map)[1] = ImportStatement(Default(str_Foo), path_Bar)
    /\ SortedStatements(map)[2] = ImportStatement(Default(str_Foo), path_Foo)

----------------------------------------------------------------------------
(* C10 *)

\* the values of m stored in the order f and filed under the symbols ks
Refiled(m, f, ks) ==
    [i \in 1..Len(m) |-> [symbol |-> ks[i], statement |-> m[f[i]].statement]]

DistinctKeys(n) ==
    {ks \in [1..n -> Symbols] : \A i, j \in 1..n : i # j => ks[i] # ks[j]}

\* C10: the rendered text depends on the multiset of stored statement values
\* only: refiling the same values under other symbols renders the same text,
\* and a statement stored under several symbols is emitted once per symbol.
C10_RenderIgnoresSymbols ==
    LET text == Render(map)
        emitted == SortedStatements(map)
        own == [i \in 1..Len(map) |-> map[i].symbol]
        asStored == [i \in 1..Len(map) |-> i]
    IN  /\ \A ks \in DistinctKeys(Len(map)) : Render(Refiled(map, asStored, ks)) = text
        /\ \A f \in Perms(Len(map)) : Render(Refiled(map, f, own)) = text
        /\ \A i \in 1..Len(map) :
              Count(emitted, map[i].statement) = Count(Values(map), map[i].statement)
        /\ Len(emitted) = Len(map)

C10_Witness ==
    /\ Len(map) = 3
    /\ map[1].symbol # map[3].symbol
    /\ map[1].statement = map[3].statement
    /\ map[2].statement # map[1].statement
    /\ Count(SortedStatements(map), map[1].statement) = 2

----------------------------------------------------------------------------
(* C6 *)

Reports(id) == Cardinality({i \in 1..Len(errors) : errors[i].node = id})

ServerAncestors(id) ==
    {i \in 1..Len(visited[id].above) : visited[id].above[i].kind = "to_server"}

Offending(id) ==
    /\ visited[id].kind = "to_server"
    /\ ServerAncestors(id) # {}
    /\ ~visited[id].ack

OpenToServer == {i \in 1..Len(path) : path[i].kind = "to_server"}

\* C6: a node gets an UnexpectedWaterfall exactly when it is a to-server edge
\* with a to-server ancestor and no acknowledgment, and then exactly one, naming
\* the nearest such ancestor; the stack holds every open to-server node
\* (offending ones included) and no to-client-object node.
C6_WaterfallExactlyOffending ==
    /\ \A id \in 1..Len(visited) :
          /\ Reports(id) = IF Offending(id) THEN 1 ELSE 0
          /\ (visited[id].kind = "to_server" /\ ServerAncestors(id) = {}) => Reports(id) = 0
    /\ \A e \in 1..Len(errors) :
          LET above == visited[errors[e].node].above
              near == CHOOSE i \in ServerAncestors(errors[e].node) :
                         \A j \in ServerAncestors(errors[e].node) : j <= i
          IN  errors[e].ancestor = above[near].id
    /\ Len(stack) = Cardinality(OpenToServer)
    /\ \A i \in 1..Len(stack) : \E j \in OpenToServer : path[j].id = stack[i]

C6_Witness ==
    /\ Len(path) = 4
    /\ path[1].kind = "to_server" /\ path[2].kind = "to_client_object"
    /\ path[3].kind = "to_server" /\ path[4].kind = "to_server"
    /\ ~path[1].ack /\ ~path[3].ack /\ ~path[4].ack
    /\ Reports(path[1].id) = 0 /\ Reports(path[2].id) = 0
    /\ Reports(path[3].id) = 1 /\ Reports(path[4].id) = 1
    /\ stack = <<path[1].id, path[3].id, path[4].id>>
    /\ Len(errors) = 2
    /\ errors[1].ancestor = path[1].id /\ errors[2].ancestor = path[3].id

----------------------------------------------------------------------------
(* C7 *)

SeenModules == {seen[i].module : i \in 1..Len(seen)}

SeenDirect(module) ==
    \E i \in 1..Len(seen) : seen[i].module = module /\ seen[i].classification = "direct"

\* C7: the dependency set holds every module met in the subtree exactly once,
\* classified direct exactly when some occurrence of it was direct, whatever
\* the order of the occurrences.
C7_DirectDominates ==
    /\ {deps[i].module : i \in 1..Len(deps)} = SeenModules
    /\ \A module \in SeenModules :
          /\ Cardinality({i \in 1..Len(deps) : deps[i].module = module}) = 1
          /\ \A i \in 1..Len(deps) :
                deps[i].module = module =>
                    deps[i].classification =
                        IF SeenDirect(module) THEN "direct" ELSE "transitive"

C7_Witness ==
    /\ Len(seen) = 4
    /\ seen[1] = [module |-> "FooModule", classification |-> "direct"]
    /\ seen[2] = [module |-> "FooModule", classification |-> "transitive"]
    /\ seen[3] = [module |-> "BarModule", classification |-> "transitive"]
    /\ seen[4] = [module |-> "BarModule", classification |-> "direct"]
    /\ Len(deps) = 2
    /\ deps[1].classification = "direct" /\ deps[2].classification = "direct"

====
